---- MODULE Spec2Model ----
(***************************************************************************)
(* Model of the connection manager of vinerima/wah                         *)
(* (src/src/connection/WebSocketConnection.ts).                            *)
(*                                                                         *)
(* The manager is a single-threaded event-loop object: every public method *)
(* and every listener runs to completion, so each of them is one action.   *)
(* A method is an operator from the manager's fields (a record m) to the   *)
(* fields after it returns; the actions apply these operators.             *)
(*                                                                         *)
(* The transport (the ws package's WebSocket) is the environment.  A       *)
(* handle is known by its readyState.  A handle whose listeners were       *)
(* removed by cleanup() can no longer reach the manager: the step that     *)
(* detached it reports it in `torn`, and only the teardown scenario        *)
(* (SpecDetached) follows it further, in `detached`.  A handle that run()  *)
(* overwrote in this.ws WITHOUT cleanup() keeps its listeners: it is kept  *)
(* in `orphans`.  Timers that are pending in the event loop are the one    *)
(* this.reconnectTimer refers to and those counted in `strayTimers`.       *)
(*                                                                         *)
(* Endpoint URLs are taken to be well formed, so that `new WebSocket(url)` *)
(* does not throw and the catch block of run() is not entered.             *)
(*                                                                         *)
(* The router (src/router/WebSocketRouter.ts) is modelled with one call of *)
(* route at a time: the synchronous part of route is one action, each      *)
(* handler settling is one, and the return after the await is one.  The    *)
(* connection and the router share no field; a specification of the one    *)
(* leaves the other as constructed.                                        *)
(***************************************************************************)
EXTENDS Integers, Sequences, FiniteSets, TLC

\* ------------------------------------------------------------------ bounds
MaxServices == 2          \* number of endpoints is in 1..MaxServices
MaxMaxAttempts == 2       \* reconnect.maxAttempts is in 1..MaxMaxAttempts
MaxMaxServiceCycles == 1  \* reconnect.maxServiceCycles is in 1..MaxMaxServiceCycles
MaxOrphans == 1           \* overwritten handles that still have listeners
MaxReconnectAttempts == 3 \* cap of the reconnectAttempts counter
MaxMessages == 1          \* cap of the messageCount counter
\* the all-fail scenario (SpecFail) draws its configuration from wider sets
MaxFailServices == 3
MaxFailAttempts == 3
MaxFailCycles == 3

\* the router: number of registrations
MaxHandlers == 3
\* detached handles that have not yet closed
MaxDetached == 1

\* ------------------------------------------------------------------ data
Keys == {"a", "b"}
Absent == 0
ParamValues == {1, 2}
\* a query-parameter record: every key is absent or has a value
Params == [Keys -> {Absent} \cup ParamValues]
NoParams == [k \in Keys |-> Absent]
\* the arguments updateParams is called with: {a: 1} and {b: 2}
UpdateArgs ==
  {[NoParams EXCEPT !["a"] = 1], [NoParams EXCEPT !["b"] = 2]}

\* a delay in milliseconds is a fraction num / den (the backoff factor need
\* not be an integer)
Fraction(n, d) == [num |-> n, den |-> d]
\* the defaults of the constructor
DefaultInitialDelay == 5000
DefaultMaxDelay == 30000
DefaultBackoffFactor == Fraction(3, 2)
DefaultBackoff ==
  [initialDelay |-> DefaultInitialDelay, maxDelay |-> DefaultMaxDelay,
   backoffFactor |-> DefaultBackoffFactor]
\* the delays the all-fail scenario is configured with
FailBackoffs ==
  [initialDelay : {4, 5}, maxDelay : {6, 9},
   backoffFactor : {Fraction(3, 2), Fraction(2, 1)}]

\* readyState of a handle; ABORTING is CLOSING after close() on a handle
\* that was still CONNECTING: the transport reports an error, then close.
LiveStates == {"CONNECTING", "OPEN", "ABORTING", "CLOSING"}
NoUrl == [idx |-> 0, params |-> NoParams]
NoOrphans == [k \in LiveStates |-> 0]
\* readyState of a handle cleanup() has closed and that is not yet CLOSED
DetachedStates == {"ABORTING", "CLOSING"}
NoDetached == [k \in DetachedStates |-> 0]

VARIABLES
  services,        \* number of configured endpoints (this.services.length)
  reconnectConfig, \* [maxAttempts, maxServiceCycles, initialDelay, maxDelay,
                   \*  backoffFactor]
  ws,              \* "null", or the readyState of the handle in this.ws
  wsUrl,           \* endpoint index and query parameters this.ws was opened with
  orphans,         \* readyState -> number of overwritten handles with listeners
  pingTimer,       \* this.pingTimer is set
  reconnectTimer,  \* this.reconnectTimer is set
  strayTimers,     \* pending timers this.reconnectTimer no longer refers to
  serviceIndex,
  reconnectAttempts,
  serviceCycles,
  isConnecting,
  shouldReconnect,
  messageCount,
  queryParams,
  emitted,         \* events the manager emitted during the last step
  armed,           \* delays handed to setTimeout during the last step
  torn,            \* readyState, after close(), of the handles cleanup()
                   \* detached during the last step
  lastOp,          \* the last public method called ("none" on a new manager)
  returned,        \* the last step was a call of send that returned true
  nFailed,         \* all-fail scenario: close events of failed attempts
  nReconnecting,   \* all-fail scenario: "reconnecting" events emitted
  nSwitched,       \* all-fail scenario: "serviceSwitched" events emitted
  detached,        \* teardown scenario: readyState -> number of handles
                   \* cleanup() detached that have not yet closed
  unheard,         \* teardown scenario: the last step was an event of a
                   \* detached handle
  \* the router (src/router/WebSocketRouter.ts) and one call of route
  handlers,        \* the registrations: the schema of each, in order
  errorListener,   \* the facade's user listens to "error" events
  routePhase,      \* "idle", "awaiting", "completed" or "rejected"
  rawData,         \* the argument of the call of route
  matched,         \* the registrations route has invoked, in order
  invocations,     \* per registration: times invoked, handler, promise
  routerEmitted    \* "error" events the router emitted during the call

fields == <<ws, wsUrl, orphans, pingTimer, reconnectTimer, strayTimers,
            serviceIndex,
            reconnectAttempts, serviceCycles, isConnecting, shouldReconnect,
            messageCount, queryParams, emitted, armed, torn>>
config == <<services, reconnectConfig>>
history == <<lastOp>>
results == <<returned>>
failures == <<nFailed, nReconnecting, nSwitched>>
teardowns == <<detached, unheard>>
counters == <<failures, teardowns>>
connection == <<config, fields, history, results, counters>>
router == <<handlers, errorListener, routePhase, rawData, matched,
            invocations, routerEmitted>>
vars == <<connection, router>>

\* the manager's fields as one record
Manager ==
  [ws |-> ws, wsUrl |-> wsUrl, orphans |-> orphans, pingTimer |-> pingTimer,
   reconnectTimer |-> reconnectTimer, strayTimers |-> strayTimers,
   serviceIndex |-> serviceIndex,
   reconnectAttempts |-> reconnectAttempts, serviceCycles |-> serviceCycles,
   isConnecting |-> isConnecting, shouldReconnect |-> shouldReconnect,
   messageCount |-> messageCount, queryParams |-> queryParams,
   emitted |-> <<>>, armed |-> <<>>, torn |-> <<>>]

\* the fields after a method or listener returned r
ApplyFields(r) ==
  /\ ws' = r.ws
  /\ wsUrl' = r.wsUrl
  /\ orphans' = r.orphans
  /\ pingTimer' = r.pingTimer
  /\ reconnectTimer' = r.reconnectTimer
  /\ strayTimers' = r.strayTimers
  /\ serviceIndex' = r.serviceIndex
  /\ reconnectAttempts' = r.reconnectAttempts
  /\ serviceCycles' = r.serviceCycles
  /\ isConnecting' = r.isConnecting
  /\ shouldReconnect' = r.shouldReconnect
  /\ messageCount' = r.messageCount
  /\ queryParams' = r.queryParams
  /\ emitted' = r.emitted
  /\ armed' = r.armed
  /\ torn' = r.torn
  /\ UNCHANGED config
  /\ UNCHANGED router

Apply(r) ==
  /\ ApplyFields(r)
  /\ returned' = FALSE

OrphanCount(o) == o["CONNECTING"] + o["OPEN"] + o["ABORTING"] + o["CLOSING"]

\* ------------------------------------------------------------ transport
\* WebSocket.close(): a CONNECTING handle aborts its handshake, an OPEN one
\* starts the closing handshake, a CLOSING or CLOSED one is left alone.
wsClose(rs) ==
  CASE rs = "CONNECTING" -> "ABORTING"
    [] rs = "OPEN" -> "CLOSING"
    [] OTHER -> rs

\* ------------------------------------------------------ private methods
getState(m) ==
  CASE m.ws = "null" -> "closed"
    [] m.ws = "CONNECTING" -> "connecting"
    [] m.ws = "OPEN" -> "connected"
    [] m.ws \in {"CLOSING", "ABORTING"} -> "closing"
    [] OTHER -> "closed"

emit(m, e) == [m EXCEPT !.emitted = Append(@, e)]

stopHeartbeat(m) == [m EXCEPT !.pingTimer = FALSE]

startHeartbeat(m) == [stopHeartbeat(m) EXCEPT !.pingTimer = TRUE]

\* (mutant) the timer field is not reset
clearReconnectTimer_NotReset(m) == m

clearReconnectTimer(m) == [m EXCEPT !.reconnectTimer = FALSE]

\* (mutant) cleanup() closes the handle and leaves its listeners attached
cleanup_KeepsListeners(m) ==
  [(IF m.ws # "null"
      THEN [m EXCEPT !.ws = "null", !.wsUrl = NoUrl,
                     !.orphans = IF m.ws \in LiveStates
                                   THEN [@ EXCEPT ![wsClose(m.ws)] = @ + 1]
                                   ELSE @]
      ELSE m)
   EXCEPT !.reconnectTimer = FALSE]

\* removeAllListeners(), close() if OPEN or CONNECTING, this.ws = null:
\* the handle can no longer reach the manager
cleanup(m) ==
  clearReconnectTimer(
    IF m.ws # "null"
      THEN [m EXCEPT !.ws = "null", !.wsUrl = NoUrl,
                     !.torn = IF m.ws \in LiveStates
                                THEN Append(@, wsClose(m.ws)) ELSE @]
      ELSE m)

\* this.ws = new WebSocket(url): a handle still in this.ws is overwritten
\* with its listeners attached
run(m) ==
  IF m.isConnecting
    THEN m
    ELSE [m EXCEPT
            !.isConnecting = TRUE,
            !.orphans = IF m.ws \in LiveStates
                          THEN [@ EXCEPT ![m.ws] = @ + 1] ELSE @,
            !.ws = "CONNECTING",
            !.wsUrl = [idx |-> m.serviceIndex, params |-> m.queryParams]]

canTryNextService(m) ==
  services > 1 /\ m.serviceCycles < reconnectConfig.maxServiceCycles

\* (mutant) a cycle is counted at every switch, not only at the wrap to 0
moveToNextService_EverySwitch(m) ==
  LET previousIndex == m.serviceIndex
      index == (m.serviceIndex + 1) % services
      m1 == [m EXCEPT !.serviceIndex = index,
                      !.serviceCycles = @ + 1,
                      !.reconnectAttempts = 0]
      m2 == emit(m1, [type |-> "serviceSwitched", from |-> previousIndex,
                      to |-> index, cycle |-> m1.serviceCycles])
  IN [cleanup(m2) EXCEPT !.isConnecting = TRUE, !.ws = "CONNECTING",
                         !.wsUrl = [idx |-> index, params |-> m.queryParams]]

moveToNextService(m) ==
  LET previousIndex == m.serviceIndex
      index == (m.serviceIndex + 1) % services
      m1 == [m EXCEPT !.serviceIndex = index,
                      !.serviceCycles = IF index = 0 THEN @ + 1 ELSE @,
                      !.reconnectAttempts = 0]
      m2 == emit(m1, [type |-> "serviceSwitched", from |-> previousIndex,
                      to |-> index, cycle |-> m1.serviceCycles])
  IN run(cleanup(m2))

RECURSIVE MathPow(_, _)
MathPow(base, exponent) ==
  IF exponent = 0 THEN 1 ELSE base * MathPow(base, exponent - 1)

\* Math.round of a non-negative fraction: halves go up
MathRound(x) == (2 * x.num + x.den) \div (2 * x.den)

\* Math.min of two fractions
MathMin(x, y) == IF x.num * y.den <= y.num * x.den THEN x ELSE y

\* (mutant) the delay is not capped by maxDelay
backoffDelay_NoCap(attempts) ==
  Fraction(reconnectConfig.initialDelay
             * MathPow(reconnectConfig.backoffFactor.num, attempts - 1),
           MathPow(reconnectConfig.backoffFactor.den, attempts - 1))

\* const delay = Math.min(initialDelay * Math.pow(backoffFactor,
\* reconnectAttempts - 1), maxDelay)
backoffDelay(attempts) ==
  MathMin(Fraction(reconnectConfig.initialDelay
                     * MathPow(reconnectConfig.backoffFactor.num, attempts - 1),
                   MathPow(reconnectConfig.backoffFactor.den, attempts - 1)),
          Fraction(reconnectConfig.maxDelay, 1))

\* this.reconnectTimer = setTimeout(callback, delay): a timer the field
\* still refers to stays pending in the event loop
setReconnectTimer(m, delay) ==
  [m EXCEPT !.strayTimers = IF m.reconnectTimer THEN @ + 1 ELSE @,
            !.reconnectTimer = TRUE,
            !.armed = Append(@, delay)]

\* (mutant) the attempts are compared with > instead of >=
scheduleReconnect_OneMore(m) ==
  LET m1 == [m EXCEPT !.reconnectAttempts = @ + 1]
  IN IF m1.reconnectAttempts > reconnectConfig.maxAttempts
       THEN IF canTryNextService(m1) THEN moveToNextService(m1) ELSE m1
       ELSE [emit(m1, [type |-> "reconnecting",
                       attempt |-> m1.reconnectAttempts,
                       maxAttempts |-> reconnectConfig.maxAttempts,
                       service |-> m1.serviceIndex])
             EXCEPT !.reconnectTimer = TRUE]

\* (mutant) the timer armed before is not cancelled
scheduleReconnect_NoClear(m) ==
  LET m1 == [m EXCEPT !.reconnectAttempts = @ + 1]
      delay == backoffDelay(m1.reconnectAttempts)
  IN IF m1.reconnectAttempts >= reconnectConfig.maxAttempts
       THEN IF canTryNextService(m1) THEN moveToNextService(m1) ELSE m1
       ELSE setReconnectTimer(
              emit(m1, [type |-> "reconnecting",
                        attempt |-> m1.reconnectAttempts,
                        maxAttempts |-> reconnectConfig.maxAttempts,
                        delay |-> MathRound(delay),
                        service |-> m1.serviceIndex]),
              delay)

scheduleReconnect(m) ==
  LET m1 == [m EXCEPT !.reconnectAttempts = @ + 1]
      delay == backoffDelay(m1.reconnectAttempts)
  IN IF m1.reconnectAttempts >= reconnectConfig.maxAttempts
       THEN IF canTryNextService(m1) THEN moveToNextService(m1) ELSE m1
       ELSE setReconnectTimer(
              clearReconnectTimer(
                emit(m1, [type |-> "reconnecting",
                          attempt |-> m1.reconnectAttempts,
                          maxAttempts |-> reconnectConfig.maxAttempts,
                          delay |-> MathRound(delay),
                          service |-> m1.serviceIndex])),
              delay)

\* the callback of the reconnect timer
reconnectTimerCallback(m) == run(cleanup(m))

\* ------------------------------------------------------------ listeners
\* (mutant) the open listener does not reset serviceCycles
onOpen_KeepCycles(m) ==
  emit([m EXCEPT !.isConnecting = FALSE, !.reconnectAttempts = 0,
                 !.pingTimer = TRUE],
       [type |-> "open"])

onOpen(m) ==
  emit(startHeartbeat([m EXCEPT !.isConnecting = FALSE,
                                !.reconnectAttempts = 0,
                                !.serviceCycles = 0]),
       [type |-> "open"])

\* (mutant) the message listener does not count the message
onMessage_NoCount(m) == emit(m, [type |-> "message"])

onMessage(m) ==
  emit([m EXCEPT !.messageCount = @ + 1], [type |-> "message"])

onError(m) ==
  emit([m EXCEPT !.isConnecting = FALSE], [type |-> "error"])

\* (mutant) the close listener does not look at shouldReconnect
onClose_AlwaysReconnect(m) ==
  scheduleReconnect(
    emit([m EXCEPT !.isConnecting = FALSE, !.pingTimer = FALSE],
         [type |-> "close"]))

onClose(m) ==
  LET m1 == emit(stopHeartbeat([m EXCEPT !.isConnecting = FALSE]),
                 [type |-> "close"])
  IN IF m1.shouldReconnect THEN scheduleReconnect(m1) ELSE m1

\* ------------------------------------------------------- public methods
connect(m) ==
  IF m.isConnecting \/ getState(m) = "connected"
    THEN m
    ELSE run([m EXCEPT !.shouldReconnect = TRUE])

\* (mutant) close() does not cancel the reconnect timer
close_KeepsTimer(m) ==
  LET m1 == [m EXCEPT !.shouldReconnect = FALSE, !.pingTimer = FALSE]
  IN IF m1.ws # "null" THEN [m1 EXCEPT !.ws = wsClose(@)] ELSE m1

close(m) ==
  LET m1 == clearReconnectTimer(
              stopHeartbeat([m EXCEPT !.shouldReconnect = FALSE]))
  IN IF m1.ws # "null" THEN [m1 EXCEPT !.ws = wsClose(@)] ELSE m1

\* (mutant) send does not look at the readyState of the handle
send_AnyHandle(m, accepted) ==
  [m |-> m, result |-> m.ws # "null" /\ accepted]

\* send: the manager after it and the value it returns.  A write the
\* transport refuses is the catch branch.
send(m, accepted) ==
  IF m.ws # "null" /\ m.ws = "OPEN"
    THEN IF accepted
           THEN [m |-> m, result |-> TRUE]
           ELSE [m |-> m, result |-> FALSE]
    ELSE [m |-> m, result |-> FALSE]

\* (mutant) the argument replaces the overlay
mergeParams_Replace(q, p) == p

\* { ...this.queryParams, ...params }: a key of params overrides
mergeParams(q, p) == [k \in Keys |-> IF p[k] # Absent THEN p[k] ELSE q[k]]

\* (mutant) updateParams does not reset the attempts
updateParams_KeepsAttempts(m, params) ==
  LET m1 == [m EXCEPT !.queryParams = mergeParams(@, params)]
      m2 == cleanup(m1)
      m3 == [m2 EXCEPT !.serviceCycles = 0]
  IN run(m3)

updateParams(m, params) ==
  LET m1 == [m EXCEPT !.queryParams = mergeParams(@, params)]
      m2 == cleanup(m1)
      m3 == [m2 EXCEPT !.reconnectAttempts = 0, !.serviceCycles = 0]
  IN run(m3)

\* ------------------------------------------------------------ the router
\* A raw message is a string; JSON.parse fails on "{" and gives the number
\* for "1" and "2".
RawMessages == {"{", "1", "2"}
JSONparse(raw) ==
  CASE raw = "1" -> [ok |-> TRUE, value |-> 1]
    [] raw = "2" -> [ok |-> TRUE, value |-> 2]
    [] OTHER -> [ok |-> FALSE, value |-> 0]

\* a schema is the set of values its safeParse accepts
Schemas == {{1}, {2}, {1, 2}}
safeParse(schema, value) == value \in schema

\* the router's fields and the locals of the call of route as one record
Router ==
  [handlers |-> handlers, errorListener |-> errorListener,
   phase |-> routePhase, rawData |-> rawData, matched |-> matched,
   invocations |-> invocations, emitted |-> routerEmitted]

ApplyRouter(r) ==
  /\ handlers' = r.handlers
  /\ errorListener' = r.errorListener
  /\ routePhase' = r.phase
  /\ rawData' = r.rawData
  /\ matched' = r.matched
  /\ invocations' = r.invocations
  /\ routerEmitted' = r.emitted
  /\ UNCHANGED connection

NotInvoked == [invoked |-> 0, handler |-> "none", promise |-> "none"]

\* a new router (and a call of route not yet made), in a client whose user
\* may listen to "error" events or not (Listening says which may be)
NewRouter(Listening) ==
  /\ handlers = <<>>
  /\ errorListener \in Listening
  /\ routePhase = "idle"
  /\ rawData = ""
  /\ matched = <<>>
  /\ invocations = <<>>
  /\ routerEmitted = <<>>

register(r, schema) == [r EXCEPT !.handlers = Append(@, schema)]

\* this.emit("error", e): the facade's listener emits it again on the
\* client, which throws when the user attached no "error" listener
emitError(r, e) == [r EXCEPT !.emitted = Append(@, e)]
emitThrows(r) == ~r.errorListener

\* the catch block of invokeHandler: the handler threw or rejected
handlerThrew(r, i) ==
  [emitError(r, [cause |-> "handler", index |-> i])
   EXCEPT !.invocations[i].handler = "threw",
          !.invocations[i].promise =
             IF emitThrows(r) THEN "rejected" ELSE "fulfilled"]

\* the handler returned or its promise resolved
handlerReturned(r, i) ==
  [r EXCEPT !.invocations[i].handler = "returned",
            !.invocations[i].promise = "fulfilled"]

\* invokeHandler up to its await: the handler is called; if it throws at
\* once the catch block runs at once
invokeHandler(r, i, throws) ==
  LET r1 == [r EXCEPT !.invocations[i].invoked = @ + 1]
  IN IF throws
       THEN handlerThrew(r1, i)
       ELSE [r1 EXCEPT !.invocations[i].handler = "running",
                       !.invocations[i].promise = "pending"]

\* (mutant) the loop stops at the first registration that matches
RECURSIVE routeLoop_FirstMatch(_, _, _, _)
routeLoop_FirstMatch(r, i, parsed, throws) ==
  IF i > Len(r.handlers)
    THEN r
    ELSE IF safeParse(r.handlers[i], parsed)
           THEN [invokeHandler(r, i, throws[i])
                 EXCEPT !.matched = Append(@, i)]
           ELSE routeLoop_FirstMatch(r, i + 1, parsed, throws)

\* (mutant) each handler is awaited before the next registration is looked
\* at: the loop does not pass a handler that is still running
RECURSIVE routeLoop_Sequential(_, _, _, _)
routeLoop_Sequential(r, i, parsed, throws) ==
  IF i > Len(r.handlers)
    THEN r
    ELSE IF safeParse(r.handlers[i], parsed)
           THEN LET r1 == [invokeHandler(r, i, throws[i])
                           EXCEPT !.matched = Append(@, i)]
                IN IF throws[i]
                     THEN routeLoop_Sequential(r1, i + 1, parsed, throws)
                     ELSE r1
           ELSE routeLoop_Sequential(r, i + 1, parsed, throws)

\* for (const registration of this.handlers), from registration i on
RECURSIVE routeLoop(_, _, _, _)
routeLoop(r, i, parsed, throws) ==
  IF i > Len(r.handlers)
    THEN r
    ELSE routeLoop(
           IF safeParse(r.handlers[i], parsed)
             THEN [invokeHandler(r, i, throws[i])
                   EXCEPT !.matched = Append(@, i)]
             ELSE r,
           i + 1, parsed, throws)

\* (mutant) a message that is not JSON is dropped without an event
parseFailed_Silent(r) == [r EXCEPT !.phase = "completed"]

\* the catch block of JSON.parse
parseFailed(r) ==
  [emitError(r, [cause |-> "parse", index |-> 0])
   EXCEPT !.phase = IF emitThrows(r) THEN "rejected" ELSE "completed"]

\* route up to its await; throws[i] tells whether handler i throws at once
route(r, raw, throws) ==
  LET r0 == [r EXCEPT !.rawData = raw,
                      !.matched = <<>>,
                      !.invocations = [i \in DOMAIN r.handlers |-> NotInvoked],
                      !.emitted = <<>>]
      parsed == JSONparse(raw)
      r1 == routeLoop(r0, 1, parsed.value, throws)
  IN IF ~parsed.ok
       THEN parseFailed(r0)
       ELSE IF Len(r1.matched) = 0
              THEN [r1 EXCEPT !.phase = "completed"]
              ELSE [r1 EXCEPT !.phase = "awaiting"]

Settled(r) ==
  \A k \in DOMAIN r.matched : r.invocations[r.matched[k]].promise # "pending"

\* (mutant) Promise.all: route rejects with the first promise that rejects
allSettled_All(r) ==
  IF \E k \in DOMAIN r.matched :
       r.invocations[r.matched[k]].promise = "rejected"
    THEN [r EXCEPT !.phase = "rejected"]
    ELSE IF Settled(r) THEN [r EXCEPT !.phase = "completed"] ELSE r

\* (mutant) Promise.race: route goes on with the first promise that settles
allSettled_Race(r) ==
  IF \E k \in DOMAIN r.matched :
       r.invocations[r.matched[k]].promise # "pending"
    THEN [r EXCEPT !.phase = "completed"]
    ELSE r

\* await Promise.allSettled(matched), and the return after it
allSettled(r) ==
  IF Settled(r) THEN [r EXCEPT !.phase = "completed"] ELSE r

Register ==
  /\ Len(handlers) < MaxHandlers
  /\ \E schema \in Schemas : ApplyRouter(register(Router, schema))

\* a call of route; another one is not begun while one is awaiting
Route ==
  /\ routePhase # "awaiting"
  /\ \E raw \in RawMessages, throws \in [DOMAIN handlers -> BOOLEAN] :
       ApplyRouter(route(Router, raw, throws))

\* a handler that did not throw at once returns, or its promise resolves
HandlerReturns ==
  \E i \in DOMAIN invocations :
    /\ invocations[i].handler = "running"
    /\ ApplyRouter(handlerReturned(Router, i))

\* the promise of a handler that did not throw at once rejects
HandlerRejects ==
  \E i \in DOMAIN invocations :
    /\ invocations[i].handler = "running"
    /\ ApplyRouter(handlerThrew(Router, i))

RouteResumes ==
  /\ routePhase = "awaiting"
  /\ allSettled(Router) # Router
  /\ ApplyRouter(allSettled(Router))

NextRouter ==
  \/ Register
  \/ Route
  \/ HandlerReturns
  \/ HandlerRejects
  \/ RouteResumes

\* ---------------------------------------------------------------- Init
\* a new manager (the field initialisers and the constructor), for a
\* configuration of at most S endpoints, A attempts and C cycles, with the
\* delays of one of the backoff configurations B
New(S, A, C, B) ==
  /\ services \in 1..S
  /\ reconnectConfig \in
       {[maxAttempts |-> a, maxServiceCycles |-> c,
         initialDelay |-> b.initialDelay, maxDelay |-> b.maxDelay,
         backoffFactor |-> b.backoffFactor] :
          a \in 1..A, c \in 1..C, b \in B}
  /\ ws = "null"
  /\ wsUrl = NoUrl
  /\ orphans = NoOrphans
  /\ pingTimer = FALSE
  /\ reconnectTimer = FALSE
  /\ strayTimers = 0
  /\ serviceIndex = 0
  /\ reconnectAttempts = 0
  /\ serviceCycles = 0
  /\ isConnecting = FALSE
  /\ shouldReconnect = TRUE
  /\ messageCount = 0
  /\ queryParams = NoParams
  /\ emitted = <<>>
  /\ armed = <<>>
  /\ torn = <<>>
  /\ lastOp = "none"
  /\ returned = FALSE
  /\ nFailed = 0
  /\ nReconnecting = 0
  /\ nSwitched = 0
  /\ detached = NoDetached
  /\ unheard = FALSE

Init ==
  /\ New(MaxServices, MaxMaxAttempts, MaxMaxServiceCycles, {DefaultBackoff})
  /\ NewRouter({TRUE})

\* the router of a client whose connection is left alone
InitRouter ==
  /\ New(1, 1, 1, {DefaultBackoff})
  /\ NewRouter(BOOLEAN)

SpecRouter == InitRouter /\ [][NextRouter]_vars

\* the counters are bounded: a step that would pass a cap is not taken
Within(r) ==
  /\ r.reconnectAttempts <= MaxReconnectAttempts
  /\ r.messageCount <= MaxMessages
  /\ OrphanCount(r.orphans) <= MaxOrphans

\* -------------------------------------------------- steps of the manager
ConnectStep ==
  LET r == connect(Manager)
  IN /\ Within(r)
     /\ Apply(r)
     /\ lastOp' = "connect"

CloseStep ==
  /\ Apply(close(Manager))
  /\ lastOp' = "close"

UpdateParamsStep(params) ==
  /\ Apply(updateParams(Manager, params))
  /\ lastOp' = "updateParams"

\* send(data): accepted tells whether the transport takes the write
\* (ws.send(data) returns) or refuses it (ws.send(data) throws)
SendStep(accepted) ==
  LET r == send(Manager, accepted)
  IN /\ ApplyFields(r.m)
     /\ returned' = r.result
     /\ UNCHANGED history

ReconnectTimerStep ==
  /\ reconnectTimer
  /\ Apply(reconnectTimerCallback(Manager))
  /\ UNCHANGED history

\* the handle in this.ws opens
OpenStep ==
  /\ ws = "CONNECTING"
  /\ Apply(onOpen([Manager EXCEPT !.ws = "OPEN"]))
  /\ UNCHANGED history

\* an overwritten handle opens: its listener acts on the manager all the same
OrphanOpenStep ==
  /\ orphans["CONNECTING"] > 0
  /\ Apply(onOpen([Manager EXCEPT !.orphans["CONNECTING"] = @ - 1,
                                  !.orphans["OPEN"] = @ + 1]))
  /\ UNCHANGED history

MessageStep ==
  /\ ws = "OPEN"
  /\ LET r == onMessage(Manager) IN Within(r) /\ Apply(r)
  /\ UNCHANGED history

OrphanMessageStep ==
  /\ orphans["OPEN"] > 0
  /\ LET r == onMessage(Manager) IN Within(r) /\ Apply(r)
  /\ UNCHANGED history

\* the transport reports an error: the handle is CLOSING when "error" is
\* emitted, and "close" follows
ErrorStep ==
  /\ ws \in {"CONNECTING", "OPEN", "ABORTING"}
  /\ Apply(onError([Manager EXCEPT !.ws = "CLOSING"]))
  /\ UNCHANGED history

OrphanErrorStep ==
  \E k \in {"CONNECTING", "OPEN", "ABORTING"} :
    /\ orphans[k] > 0
    /\ Apply(onError([Manager EXCEPT !.orphans =
                        [[@ EXCEPT ![k] = @ - 1] EXCEPT !["CLOSING"] = @ + 1]]))
    /\ UNCHANGED history

\* the handle in this.ws is closed: by the peer (OPEN) or at the end of
\* its closing (CLOSING)
CloseEventStep ==
  /\ ws \in {"OPEN", "CLOSING"}
  /\ LET r == onClose([Manager EXCEPT !.ws = "CLOSED"])
     IN Within(r) /\ Apply(r)
  /\ UNCHANGED history

OrphanCloseEventStep ==
  \E k \in {"OPEN", "CLOSING"} :
    /\ orphans[k] > 0
    /\ LET r == onClose([Manager EXCEPT !.orphans[k] = @ - 1])
       IN Within(r) /\ Apply(r)
    /\ UNCHANGED history

\* ------------------------------------------------ the manager, any use
Connect == ConnectStep /\ UNCHANGED counters
Close == CloseStep /\ UNCHANGED counters
UpdateParams == \E p \in UpdateArgs : UpdateParamsStep(p) /\ UNCHANGED counters
ReconnectTimer == ReconnectTimerStep /\ UNCHANGED counters
TransportOpen == OpenStep /\ UNCHANGED counters
OrphanOpen == OrphanOpenStep /\ UNCHANGED counters
TransportMessage == MessageStep /\ UNCHANGED counters
OrphanMessage == OrphanMessageStep /\ UNCHANGED counters
TransportError == ErrorStep /\ UNCHANGED counters
OrphanError == OrphanErrorStep /\ UNCHANGED counters
TransportClose == CloseEventStep /\ UNCHANGED counters
OrphanClose == OrphanCloseEventStep /\ UNCHANGED counters

Next ==
  \/ Connect
  \/ Close
  \/ UpdateParams
  \/ ReconnectTimer
  \/ TransportOpen
  \/ OrphanOpen
  \/ TransportMessage
  \/ OrphanMessage
  \/ TransportError
  \/ OrphanError
  \/ TransportClose
  \/ OrphanClose

Spec == Init /\ [][Next]_vars

\* ------------------------------------- the manager, any use, with send
Send == \E accepted \in BOOLEAN : SendStep(accepted) /\ UNCHANGED counters

NextSend ==
  \/ Next
  \/ Send

SpecSend == Init /\ [][NextSend]_vars

\* --------------------------- the manager before connect() is ever called
\* updateParams is called with any overlay (the empty one included)
UpdateParamsAny == \E p \in Params : UpdateParamsStep(p) /\ UNCHANGED counters

NextOverlay ==
  \/ UpdateParamsAny
  \/ Close
  \/ ReconnectTimer
  \/ TransportOpen
  \/ TransportMessage
  \/ TransportError
  \/ TransportClose

SpecOverlay == Init /\ [][NextOverlay]_vars

\* ------------------------------------- the manager when every attempt fails
\* connect() is called once on a new manager and nothing else is called;
\* the transport answers every attempt with "error", then "close".
\* The counters record what happened.
Occurrences(type, events) ==
  Cardinality({i \in DOMAIN events : events[i].type = type})

InitFail ==
  /\ New(MaxFailServices, MaxFailAttempts, MaxFailCycles, FailBackoffs)
  /\ NewRouter({TRUE})

FailConnect ==
  /\ lastOp = "none"
  /\ ConnectStep
  /\ UNCHANGED counters

FailError ==
  /\ ErrorStep
  /\ UNCHANGED counters

FailClose ==
  /\ CloseEventStep
  /\ nFailed' = nFailed + 1
  /\ nReconnecting' = nReconnecting + Occurrences("reconnecting", emitted')
  /\ nSwitched' = nSwitched + Occurrences("serviceSwitched", emitted')
  /\ UNCHANGED teardowns

FailReconnectTimer ==
  /\ ReconnectTimerStep
  /\ UNCHANGED counters

NextFail ==
  \/ FailConnect
  \/ FailError
  \/ FailClose
  \/ FailReconnectTimer

SpecFail == InitFail /\ [][NextFail]_vars

\* the transport reports every failure and a timer that is armed fires
FairSpecFail ==
  /\ SpecFail
  /\ WF_vars(FailError)
  /\ WF_vars(FailClose)
  /\ WF_vars(FailReconnectTimer)

\* the manager has given up: connect() was called, the last attempt has
\* failed and nothing is left that would start another one
GaveUp ==
  /\ lastOp = "connect"
  /\ ws = "CLOSED"
  /\ ~reconnectTimer

\* ------------------------------ the manager, any use, and the handles
\* ------------------------------ cleanup() has detached
\* The client has two endpoints and two attempts per endpoint.  A handle
\* cleanup() took out of this.ws while it was not yet CLOSED goes on living
\* in the transport: it is recorded in detached until its close event.
InitDetached ==
  /\ Init
  /\ services = 2
  /\ reconnectConfig.maxAttempts = 2
  /\ reconnectConfig.maxServiceCycles = 1

DetachedCount(d) == d["ABORTING"] + d["CLOSING"]

\* a step of the manager; the handles it detached are recorded
Detaching(step) ==
  /\ step
  /\ detached' = [k \in DetachedStates |->
                    detached[k] + Cardinality({i \in DOMAIN torn' : torn'[i] = k})]
  /\ DetachedCount(detached') <= MaxDetached
  /\ unheard' = FALSE

\* an event of a detached handle: removeAllListeners() has left it no
\* listener, so no code of the manager runs
DetachedEventStep(from, to) ==
  /\ detached[from] > 0
  /\ detached' = IF to = "CLOSED"
                   THEN [detached EXCEPT ![from] = @ - 1]
                   ELSE [[detached EXCEPT ![from] = @ - 1] EXCEPT ![to] = @ + 1]
  /\ unheard' = TRUE
  /\ Apply(Manager)
  /\ UNCHANGED history

\* a message that arrives during the closing handshake
DetachedMessage == DetachedEventStep("CLOSING", "CLOSING") /\ UNCHANGED failures
\* the aborted handshake is reported as an error; "close" follows
DetachedError == DetachedEventStep("ABORTING", "CLOSING") /\ UNCHANGED failures
DetachedClose == DetachedEventStep("CLOSING", "CLOSED") /\ UNCHANGED failures

DetachingConnect == Detaching(ConnectStep) /\ UNCHANGED failures
DetachingClose == Detaching(CloseStep) /\ UNCHANGED failures
DetachingUpdateParams ==
  \E p \in UpdateArgs : Detaching(UpdateParamsStep(p)) /\ UNCHANGED failures
DetachingReconnectTimer == Detaching(ReconnectTimerStep) /\ UNCHANGED failures
DetachingOpen == Detaching(OpenStep) /\ UNCHANGED failures
DetachingOrphanOpen == Detaching(OrphanOpenStep) /\ UNCHANGED failures
DetachingMessage == Detaching(MessageStep) /\ UNCHANGED failures
DetachingOrphanMessage == Detaching(OrphanMessageStep) /\ UNCHANGED failures
DetachingError == Detaching(ErrorStep) /\ UNCHANGED failures
DetachingOrphanError == Detaching(OrphanErrorStep) /\ UNCHANGED failures
DetachingCloseEvent == Detaching(CloseEventStep) /\ UNCHANGED failures
DetachingOrphanClose == Detaching(OrphanCloseEventStep) /\ UNCHANGED failures

NextDetached ==
  \/ DetachingConnect
  \/ DetachingClose
  \/ DetachingUpdateParams
  \/ DetachingReconnectTimer
  \/ DetachingOpen
  \/ DetachingOrphanOpen
  \/ DetachingMessage
  \/ DetachingOrphanMessage
  \/ DetachingError
  \/ DetachingOrphanError
  \/ DetachingCloseEvent
  \/ DetachingOrphanClose
  \/ DetachedMessage
  \/ DetachedError
  \/ DetachedClose

SpecDetached == InitDetached /\ [][NextDetached]_vars

\* ---------------------------------------------------------------- claims

\* C3 (as amended): on a single endpoint with maxAttempts = n, when every
\* attempt fails after connect(), a "reconnecting" event is emitted after
\* each of the first n - 1 failures and none after the n-th: exactly n - 1
\* events, and the manager has given up at the n-th failure (there is no
\* n+1-th attempt).
C3_ReconnectingEvents ==
  services = 1 =>
    /\ nFailed <= reconnectConfig.maxAttempts
    /\ nReconnecting =
         IF nFailed < reconnectConfig.maxAttempts
           THEN nFailed ELSE reconnectConfig.maxAttempts - 1
    /\ nFailed = reconnectConfig.maxAttempts => GaveUp

C3_Witness ==
  /\ services = 1
  /\ reconnectConfig.maxAttempts = 3
  /\ nFailed = 3
  /\ nReconnecting = 2

\* C3 as claimed: exactly n "reconnecting" events by the time the n-th
\* attempt has failed.
C3_Claimed ==
  (services = 1 /\ nFailed = reconnectConfig.maxAttempts) =>
    (nReconnecting = reconnectConfig.maxAttempts /\ GaveUp)

\* C4 as claimed: with E endpoints, maxAttempts = A and maxServiceCycles = C,
\* the manager has given up after exactly E * A * C failed attempts.  The
\* claim is taken where failover exists (E > 1): with one endpoint the code
\* never looks at maxServiceCycles.
C4_Claimed ==
  (services > 1 /\ GaveUp) =>
    nFailed = services * reconnectConfig.maxAttempts
                * reconnectConfig.maxServiceCycles

\* what the code does: one pass over endpoint 0 more than C full cycles
C4_CodeCount ==
  GaveUp =>
    nFailed = IF services > 1
                THEN reconnectConfig.maxAttempts
                       * (services * reconnectConfig.maxServiceCycles + 1)
                ELSE reconnectConfig.maxAttempts

\* C5: with E > 1 endpoints and maxServiceCycles = C, when the manager gives
\* up it has emitted E*C - 1 or E*C "serviceSwitched" events and the
\* endpoint index is 0; it never emits more than E*C.
C5_SwitchCount ==
  services > 1 =>
    /\ nSwitched <= services * reconnectConfig.maxServiceCycles
    /\ GaveUp =>
         /\ nSwitched \in {services * reconnectConfig.maxServiceCycles - 1,
                           services * reconnectConfig.maxServiceCycles}
         /\ serviceIndex = 0

C5_Witness ==
  /\ services = 3
  /\ reconnectConfig.maxServiceCycles = 2
  /\ GaveUp
  /\ nSwitched = 6

\* C6: when every attempt fails and nothing is called after connect(), the
\* manager gives up after finitely many attempts: no reconnect timer, no
\* heartbeat timer, no handle connecting or open; and once it has given up
\* it makes no further attempt.
Quiescent ==
  /\ ~reconnectTimer
  /\ ~pingTimer
  /\ ws \notin {"CONNECTING", "OPEN"}
  /\ orphans["CONNECTING"] = 0
  /\ orphans["OPEN"] = 0

C6_GivesUp ==
  /\ (lastOp = "connect") ~> (GaveUp /\ Quiescent)
  /\ [][GaveUp => (GaveUp' /\ Quiescent' /\ UNCHANGED nFailed)]_vars

C6_Witness ==
  /\ GaveUp
  /\ Quiescent
  /\ services > 1
  /\ nFailed > reconnectConfig.maxAttempts

\* number of handles that still deliver their events to the manager and
\* are not closed
LiveHandles ==
  (IF ws \in LiveStates THEN 1 ELSE 0) + OrphanCount(orphans)

\* C1 as claimed: after updateParams returns, from whatever state it was
\* called in, the overlay is the merged one and exactly one handle exists:
\* a fresh attempt (CONNECTING) to the current endpoint with that overlay.
C1_Claimed ==
  [][\A p \in UpdateArgs :
       UpdateParamsStep(p) =>
         /\ queryParams' = mergeParams(queryParams, p)
         /\ ws' = "CONNECTING"
         /\ wsUrl' = [idx |-> serviceIndex', params |-> queryParams']
         /\ OrphanCount(orphans') = 0]_vars

\* C2 as claimed: at most one handle is live in every reachable state.
C2_Claimed == LiveHandles <= 1

\* C7 as claimed: after close(), with neither connect() nor updateParams
\* called since, once the closing it asked for and the attempts under way
\* have come to their end, no heartbeat timer, no reconnect timer and no
\* connecting or open handle is left.
CloseSettled ==
  /\ lastOp = "close"
  /\ ws \notin {"ABORTING", "CLOSING"}
  /\ orphans["ABORTING"] = 0
  /\ orphans["CLOSING"] = 0
  /\ orphans["CONNECTING"] = 0

C7_Claimed == CloseSettled => Quiescent

\* C8: while shouldReconnect is false (close() was called and connect()
\* has not been called since), an "error" or "close" event of a handle arms
\* no reconnect timer, switches no endpoint and opens no handle (run() was
\* not entered: isConnecting is false after the listener, this.ws is the
\* handle it was and no handle was overwritten).
TransportFailureStep ==
  \/ ErrorStep
  \/ OrphanErrorStep
  \/ CloseEventStep
  \/ OrphanCloseEventStep

C8_NoReconnectAfterClose ==
  [][(~shouldReconnect /\ TransportFailureStep) =>
       /\ ~reconnectTimer'
       /\ UNCHANGED <<serviceIndex, serviceCycles, reconnectAttempts>>
       /\ ws' \in {ws, "CLOSING", "CLOSED"}
       /\ ~isConnecting'
       /\ OrphanCount(orphans') <= OrphanCount(orphans)
       /\ Occurrences("reconnecting", emitted') = 0
       /\ Occurrences("serviceSwitched", emitted') = 0
       /\ ~shouldReconnect']_vars

\* a "close" event has been delivered after close()
C8_Witness ==
  /\ ~shouldReconnect
  /\ lastOp = "close"
  /\ emitted = <<[type |-> "close"]>>
  /\ ws = "CLOSED"

C10_OpenResets ==
  [][(OpenStep \/ OrphanOpenStep) =>
       /\ reconnectAttempts' = 0
       /\ serviceCycles' = 0
       /\ serviceIndex' = serviceIndex]_vars

\* an open after failed attempts and a switch to the second endpoint
C10_Witness ==
  /\ emitted = <<[type |-> "open"]>>
  /\ ws = "OPEN"
  /\ serviceIndex = 1
  /\ reconnectAttempts = 0
  /\ serviceCycles = 0

\* C11: in every reachable state send returns true exactly when the handle
\* in this.ws is open (the state getState calls "connected") and the
\* transport accepts the write; with no handle, a connecting, closing or
\* closed handle, or a refused write it returns false; in either case no
\* field is changed, no timer armed and nothing emitted; and after a call
\* that returned true the handle is open.
C11_SendResult ==
  /\ \A accepted \in BOOLEAN :
       LET r == send(Manager, accepted)
       IN /\ r.result = (getState(Manager) = "connected" /\ accepted)
          /\ ws \in {"null", "CONNECTING", "ABORTING", "CLOSING", "CLOSED"}
               => ~r.result
          /\ ~accepted => ~r.result
          /\ r.m = Manager
  /\ returned => (ws = "OPEN" /\ emitted = <<>> /\ armed = <<>>)

\* send has just returned true on an open handle
C11_Witness ==
  /\ returned
  /\ ws = "OPEN"
  /\ emitted = <<>>

\* C16 as claimed: in every state in which a new handle is being created
\* (this.ws is a handle that is connecting, whichever of connect,
\* updateParams, the reconnect timer or an endpoint switch created it), no
\* heartbeat timer is running.
C16_Claimed == ws = "CONNECTING" => ~pingTimer

\* C20 as claimed: connect() called while the handle in this.ws is
\* connecting or open creates no handle and changes no field of the
\* manager.
C20_Claimed ==
  ws \in {"CONNECTING", "OPEN"} => connect(Manager) = Manager

\* C17: updateParams merges its argument into the overlay key by key: a
\* key of the argument takes the argument's value whatever it held before
\* (the later value wins), a key absent from the argument keeps its value;
\* and on a new manager updateParams({a: 1}) followed by
\* updateParams({b: 2}) leaves the overlay {a: 1, b: 2}.
C17_Merge ==
  /\ [][\A p \in Params :
          UpdateParamsStep(p) =>
            \A k \in Keys :
              queryParams'[k] = IF p[k] # Absent THEN p[k] ELSE queryParams[k]]_vars
  /\ [](lastOp = "none" =>
          updateParams(updateParams(Manager, [NoParams EXCEPT !["a"] = 1]),
                       [NoParams EXCEPT !["b"] = 2]).queryParams
            = [a |-> 1, b |-> 2])

\* updateParams has returned and the overlay is {a: 1, b: 2}
C17_Witness ==
  /\ lastOp = "updateParams"
  /\ queryParams = [a |-> 1, b |-> 2]
  /\ wsUrl.params = [a |-> 1, b |-> 2]

\* C18 as claimed: as long as connect() has not been called, shouldReconnect
\* is false, and a failure of a handle (one opened by updateParams) arms no
\* reconnect timer and emits neither "reconnecting" nor "serviceSwitched".
C18_Claimed ==
  /\ ~shouldReconnect
  /\ ~reconnectTimer
  /\ Occurrences("reconnecting", emitted) = 0
  /\ Occurrences("serviceSwitched", emitted) = 0

\* the second half of C18 alone
C18_NoReconnectBeforeConnect ==
  /\ ~reconnectTimer
  /\ Occurrences("reconnecting", emitted) = 0
  /\ Occurrences("serviceSwitched", emitted) = 0

\* the delay the spec's formula gives for attempt k, as a fraction:
\* min(maxDelay, initialDelay * backoffFactor^(k-1))
RECURSIVE GrownDelay(_)
GrownDelay(k) ==
  IF k = 1
    THEN Fraction(reconnectConfig.initialDelay, 1)
    ELSE Fraction(GrownDelay(k - 1).num * reconnectConfig.backoffFactor.num,
                  GrownDelay(k - 1).den * reconnectConfig.backoffFactor.den)

FractionLeq(x, y) == x.num * y.den <= y.num * x.den

FractionEq(x, y) == x.num * y.den = y.num * x.den

SpecDelay(k) ==
  IF FractionLeq(GrownDelay(k), Fraction(reconnectConfig.maxDelay, 1))
    THEN GrownDelay(k)
    ELSE Fraction(reconnectConfig.maxDelay, 1)

ReconnectingEvents ==
  {i \in DOMAIN emitted : emitted[i].type = "reconnecting"}

Registered == DOMAIN invocations
Accepting ==
  {i \in Registered : JSONparse(rawData).value \in handlers[i]}
Throwing == {i \in Registered : invocations[i].handler = "threw"}
RouterErrors(cause, i) ==
  Cardinality({k \in DOMAIN routerEmitted :
                 routerEmitted[k] = [cause |-> cause, index |-> i]})
Decoded == routePhase # "idle" /\ JSONparse(rawData).ok

\* C12: for a payload that decodes, route invokes every registration whose
\* schema accepts it exactly once and no other, in the order of
\* registration, whether or not a handler throws; and the router emits one
\* "error" event for each handler that threw or rejected and no other.
C12_InvokesMatches ==
  Decoded =>
    /\ \A i \in Registered :
         /\ invocations[i].invoked = IF i \in Accepting THEN 1 ELSE 0
         /\ RouterErrors("handler", i) = IF i \in Throwing THEN 1 ELSE 0
    /\ {matched[k] : k \in DOMAIN matched} = Accepting
    /\ Len(matched) = Cardinality(Accepting)
    /\ \A k \in DOMAIN matched : k > 1 => matched[k - 1] < matched[k]
    /\ Len(routerEmitted) = Cardinality(Throwing)
    /\ Throwing \subseteq Accepting

\* three registrations, the payload matches the first and the third, one of
\* the two threw and the other returned
C12_Witness ==
  /\ handlers = <<{1}, {2}, {1, 2}>>
  /\ Registered = 1..3
  /\ rawData = "1"
  /\ routePhase = "completed"
  /\ invocations[1].handler = "threw"
  /\ invocations[2].invoked = 0
  /\ invocations[3].handler = "returned"
  /\ Len(routerEmitted) = 1

\* C13: for a payload that does not decode, route invokes no handler,
\* whatever is registered, and the router emits exactly one "error" event,
\* the one of the decoding failure.
C13_Undecodable ==
  (routePhase # "idle" /\ ~JSONparse(rawData).ok) =>
    /\ \A i \in Registered : invocations[i] = NotInvoked
    /\ matched = <<>>
    /\ routerEmitted = <<[cause |-> "parse", index |-> 0]>>
    /\ routePhase \in {"completed", "rejected"}

C13_Witness ==
  /\ rawData = "{"
  /\ Len(handlers) = 3
  /\ Registered = 1..3
  /\ routePhase = "completed"
  /\ routerEmitted = <<[cause |-> "parse", index |-> 0]>>

\* C14: a matched handler that throws or rejects does not make route fail
\* (route is awaiting or has completed, also when reporting the error
\* threw), leaves every other matched handler invoked, and does not touch
\* the other invocations: one that is running stays running until it returns
\* or rejects by itself, and route then completes.
C14_ThrowIsolated ==
  /\ []((Decoded /\ Throwing # {}) =>
          /\ routePhase \in {"awaiting", "completed"}
          /\ \A i \in Accepting : invocations[i].invoked = 1
          /\ (routePhase = "awaiting" /\ Settled(Router)) =>
               allSettled(Router).phase = "completed")
  /\ [][\A i \in Registered :
          (HandlerRejects /\ invocations'[i] # invocations[i]) =>
            /\ \A j \in Registered \ {i} : invocations'[j] = invocations[j]
            /\ routePhase' = routePhase
            /\ matched' = matched]_vars
  /\ [][\A i \in Registered :
          invocations[i].handler = "running" =>
            /\ i \in DOMAIN invocations'
            /\ invocations'[i].handler \in {"running", "returned", "threw"}
            /\ invocations'[i].invoked = 1]_vars

\* nobody listens to "error": one handler threw, then its sibling returned
\* and route completed
C14_Witness ==
  /\ ~errorListener
  /\ routePhase = "completed"
  /\ Len(matched) = 2
  /\ invocations[matched[1]].promise = "rejected"
  /\ invocations[matched[2]].handler = "returned"

\* C15: route completes only when the invocation of every matched handler
\* has settled: it is awaiting exactly while one of them is pending or its
\* settling has not been taken up; and when no registration accepts a
\* decoded payload it completes at once, with no handler invoked and no
\* "error" event.
C15_CompletesAfterAll ==
  /\ (Decoded /\ routePhase = "completed") =>
       \A i \in Accepting :
         /\ invocations[i].handler \in {"returned", "threw"}
         /\ invocations[i].promise \in {"fulfilled", "rejected"}
  /\ (Decoded /\ ~Settled(Router)) => routePhase = "awaiting"
  /\ (Decoded /\ Accepting = {}) =>
       /\ routePhase = "completed"
       /\ \A i \in Registered : invocations[i] = NotInvoked
       /\ routerEmitted = <<>>

\* route has completed after two handlers that did not throw at once
\* settled, one by returning and one by rejecting
C15_Witness ==
  /\ routePhase = "completed"
  /\ Len(matched) = 2
  /\ errorListener
  /\ invocations[matched[1]].handler = "returned"
  /\ invocations[matched[2]].handler = "threw"
  /\ routerEmitted = <<[cause |-> "handler", index |-> matched[2]]>>

Detaches(r) ==
  /\ r.orphans = orphans
  /\ r.torn = IF ws \in LiveStates THEN <<wsClose(ws)>> ELSE <<>>

DetachedEvent == DetachedMessage \/ DetachedError \/ DetachedClose

C22_TornDownIgnored ==
  /\ [](/\ \A p \in UpdateArgs : Detaches(updateParams(Manager, p))
        /\ Detaches(reconnectTimerCallback(Manager))
        /\ Detaches(moveToNextService(Manager)))
  /\ [][DetachedEvent =>
          /\ Manager' = Manager
          /\ emitted' = <<>>
          /\ armed' = <<>>]_vars

\* updateParams tore down a handle, the new handle is connecting and the
\* old one has just delivered its close event
C22_Witness ==
  /\ unheard
  /\ DetachedCount(detached) = 0
  /\ lastOp = "updateParams"
  /\ ws = "CONNECTING"
  /\ isConnecting
  /\ reconnectAttempts = 0
  /\ ~reconnectTimer

\* C23: in every reachable state at most one reconnect timer is pending
\* (the one this.reconnectTimer refers to; no timer armed before is left
\* behind), a step arms at most one, and close(), updateParams and an
\* endpoint switch leave no timer pending.  Only a timer that is pending
\* fires (ReconnectTimerStep), so the callback of a cancelled one never runs.
PendingTimers == (IF reconnectTimer THEN 1 ELSE 0) + strayTimers

NoTimerAfter(r) == ~r.reconnectTimer /\ r.strayTimers = 0

C23_OneTimer ==
  /\ PendingTimers <= 1
  /\ Len(armed) <= 1
  /\ NoTimerAfter(close(Manager))
  /\ \A p \in UpdateArgs : NoTimerAfter(updateParams(Manager, p))
  /\ NoTimerAfter(moveToNextService(Manager))
  /\ Occurrences("serviceSwitched", emitted) > 0 => PendingTimers = 0

\* close() has just been called during the backoff wait that followed the
\* first failure: the timer is cancelled
C23_Witness ==
  /\ lastOp = "close"
  /\ emitted = <<>>
  /\ ws = "CLOSED"
  /\ reconnectConfig.maxAttempts = 2
  /\ reconnectAttempts = 1
  /\ PendingTimers = 0

\* C24: a step switches the endpoint exactly when a close event exhausts
\* the attempts on the current endpoint while the manager reconnects, there
\* is more than one endpoint and serviceCycles < maxServiceCycles.  The
\* switch sets serviceIndex to (serviceIndex + 1) mod N, adds 1 to
\* serviceCycles exactly when the new index is 0, sets reconnectAttempts to
\* 0 and opens the new endpoint in the same step, with no reconnect timer
\* armed or left pending.  No other step changes serviceIndex or increases
\* serviceCycles.
Switched == Occurrences("serviceSwitched", emitted) > 0

FailoverDue ==
  /\ shouldReconnect
  /\ reconnectAttempts + 1 >= reconnectConfig.maxAttempts
  /\ services > 1
  /\ serviceCycles < reconnectConfig.maxServiceCycles

Running == {i \in Registered : invocations[i].handler = "running"}

C25_AllStarted ==
  Running # {} =>
    /\ routePhase = "awaiting"
    /\ \A j \in Accepting :
         /\ invocations[j].invoked = 1
         /\ invocations[j].handler # "none"
    /\ \A j \in Running :
         LET r == handlerReturned(Router, j)
         IN /\ r.invocations[j].promise = "fulfilled"
            /\ \A i \in Registered \ {j} : r.invocations[i] = invocations[i]

\* three handlers match; the first is still running while the second has
\* returned and the third has rejected
C25_Witness ==
  /\ Registered = 1..3
  /\ Accepting = 1..3
  /\ routePhase = "awaiting"
  /\ invocations[1].handler = "running"
  /\ invocations[2].handler = "returned"
  /\ invocations[3].handler = "threw"
  /\ invocations[3].promise = "fulfilled"

\* C26: in every step messageCount grows by the number of messages the
\* step delivered to the manager's message listener: by exactly 1 in a step
\* that delivers a message, and not at all in any other step (connect,
\* close, send, updateParams, open, error, close event, timer callback,
\* endpoint switch); so it never decreases.
C26_MessageCount ==
  [][/\ messageCount' = messageCount + Occurrences("message", emitted')
     /\ Occurrences("message", emitted') <= 1
     /\ Occurrences("message", emitted') = 1
          => (ws = "OPEN" \/ orphans["OPEN"] > 0)]_vars

\* a message has just been delivered and counted
C26_Witness ==
  /\ emitted = <<[type |-> "message"]>>
  /\ messageCount = 1
  /\ ws = "OPEN"

\* C27 as claimed: while connect() is the last method the user called (the
\* intent is connected), the manager is never stalled: isConnecting set, so
\* that connect() is refused, with no handle at all and no reconnect timer
\* pending.
Stalled ==
  /\ isConnecting
  /\ connect(Manager) = Manager
  /\ ws = "null"
  /\ OrphanCount(orphans) = 0
  /\ PendingTimers = 0

C27_Claimed == (lastOp = "connect" /\ shouldReconnect) => ~Stalled

\* C28 as claimed: while a reconnect timer is pending no handle is
\* connecting or open.
C28_Claimed == reconnectTimer => ws \notin {"CONNECTING", "OPEN"}

\* C29 as claimed: reconnectAttempts <= maxAttempts and
\* serviceCycles <= maxServiceCycles in every reachable state.
C29_Claimed ==
  /\ reconnectAttempts <= reconnectConfig.maxAttempts
  /\ serviceCycles <= reconnectConfig.maxServiceCycles

\* the half of C29 the code keeps: serviceCycles <= maxServiceCycles
C29_CyclesBounded == serviceCycles <= reconnectConfig.maxServiceCycles

\* C30 as claimed: updateParams called after close(), with no connect()
\* since, merges the overlay and opens no handle.
C30_Claimed ==
  [][\A p \in UpdateArgs :
       (lastOp = "close" /\ ~shouldReconnect /\ UpdateParamsStep(p)) =>
         /\ queryParams' = mergeParams(queryParams, p)
         /\ ws' \notin {"CONNECTING", "OPEN"}
         /\ orphans' = orphans]_vars

====
